---- MODULE Spec2Model ----
(***************************************************************************)
(* Model of test_samples/test_atc_transcription.py: the WER scorer         *)
(* (calculate_wer), the sample loader (load_atc_samples), the two          *)
(* transcription backends and the comparison run (run_comparison_test).    *)
(*                                                                         *)
(* A text is a sequence of one-character strings.  A WER value is an exact *)
(* fraction <<numerator, denominator>> in lowest terms (the code computes  *)
(* with floats; the model keeps the quotient exact).                       *)
(***************************************************************************)
EXTENDS Integers, Sequences, FiniteSets, TLC

\* ------------------------------------------------------------------ bounds

\* longest reference text given to the scorer, in characters
MaxRefLen == 5
\* longest hypothesis text given to the scorer, in characters
MaxHypLen == 5
\* largest corpus, in entries
MaxCorpus == 6
\* largest requested sample count tried on load_atc_samples
MaxRequest == 7

\* ------------------------------------------------------- program constants

\* run_comparison_test: load_atc_samples(num_samples=5)
NumSamples == 5
\* run_comparison_test: avg_atc_wer < 0.15, as the fraction 15/100
ThresholdNum == 15
ThresholdDen == 100

\* ---------------------------------------------------------------- numbers

Min(a, b) == IF a <= b THEN a ELSE b

Abs(a) == IF a < 0 THEN -a ELSE a

RECURSIVE Gcd(_, _)
Gcd(a, b) == IF b = 0 THEN a ELSE Gcd(b, a % b)

\* the fraction n/d (d > 0) in lowest terms
Rat(n, d) == LET g == Gcd(Abs(n), d) IN <<n \div g, d \div g>>

RatZero == <<0, 1>>

RatAdd(x, y) == Rat(x[1] * y[2] + y[1] * x[2], x[2] * y[2])

RatSub(x, y) == Rat(x[1] * y[2] - y[1] * x[2], x[2] * y[2])

RatLess(x, y) == x[1] * y[2] < y[1] * x[2]

RatLeq(x, y) == x[1] * y[2] <= y[1] * x[2]

\* x / y for y > 0
RatDiv(x, y) == Rat(x[1] * y[2], x[2] * y[1])

RatTimesInt(x, k) == Rat(x[1] * k, x[2])

RECURSIVE RatSum(_)
RatSum(s) == IF s = <<>> THEN RatZero ELSE RatAdd(Head(s), RatSum(Tail(s)))

\* ------------------------------------------------------------------ texts

\* the characters of the scorer's inputs: a letter in both cases and a blank
Alphabet == {"a", "A", " "}

IsSpace(c) == c = " "

\* str.lower() on one character
LowerChar(c) ==
    CASE c = "A" -> "a"
      [] c = "E" -> "e"
      [] OTHER -> c

\* str.lower()
lower(text) == [i \in DOMAIN text |-> LowerChar(text[i])]

RECURSIVE SplitAcc(_, _, _)
SplitAcc(text, cur, acc) ==
    IF text = <<>>
    THEN IF cur = <<>> THEN acc ELSE Append(acc, cur)
    ELSE IF IsSpace(Head(text))
         THEN SplitAcc(Tail(text), <<>>, IF cur = <<>> THEN acc ELSE Append(acc, cur))
         ELSE SplitAcc(Tail(text), Append(cur, Head(text)), acc)

\* str.split(): the maximal runs of non-blank characters, in order
split(text) == SplitAcc(text, <<>>, <<>>)

RECURSIVE LStrip(_)
LStrip(text) ==
    IF text # <<>> /\ IsSpace(Head(text)) THEN LStrip(Tail(text)) ELSE text

RECURSIVE RStrip(_)
RStrip(text) ==
    IF text # <<>> /\ IsSpace(text[Len(text)])
    THEN RStrip(SubSeq(text, 1, Len(text) - 1))
    ELSE text

\* str.strip()
strip(text) == RStrip(LStrip(text))

RECURSIVE TextsOfLen(_)
TextsOfLen(n) ==
    IF n = 0 THEN {<<>>}
    ELSE {Append(t, c) : t \in TextsOfLen(n - 1), c \in Alphabet}

TextsUpTo(n) == UNION {TextsOfLen(k) : k \in 0..n}

\* ----------------------------------------------------------------- scorer

\* a score, or the exception that left calculate_wer
Score(v) == [ok |-> TRUE, val |-> v]

Raised(e) == [ok |-> FALSE, exc |-> e]

\* number of positions of the overlapping prefix where the words differ
Mismatches(ref_words, hyp_words) ==
    Cardinality({i \in 1..Min(Len(ref_words), Len(hyp_words)) :
                    ref_words[i] # hyp_words[i]})

\* faulty variant: the length difference is not counted
FallbackErrorsNoLenDiff(ref_words, hyp_words) ==
    Mismatches(ref_words, hyp_words)

\* errors of the except-branch: |len difference| + position-wise mismatches
FallbackErrors(ref_words, hyp_words) ==
    Abs(Len(ref_words) - Len(hyp_words)) + Mismatches(ref_words, hyp_words)

\* faulty variant: the result is not clamped to 1.0
FallbackWerNoClamp(reference, hypothesis) ==
    LET ref_words == split(lower(reference))
        hyp_words == split(lower(hypothesis))
    IN  IF Len(ref_words) = 0
        THEN IF Len(hyp_words) # 0 THEN <<1, 1>> ELSE <<0, 1>>
        ELSE Rat(FallbackErrors(ref_words, hyp_words), Len(ref_words))

\* the except-ImportError branch of calculate_wer
FallbackWer(reference, hypothesis) ==
    LET ref_words == split(lower(reference))
        hyp_words == split(lower(hypothesis))
    IN  IF Len(ref_words) = 0
        THEN IF Len(hyp_words) # 0 THEN <<1, 1>> ELSE <<0, 1>>
        ELSE LET errors == FallbackErrors(ref_words, hyp_words)
             IN  Rat(Min(Len(ref_words), errors), Len(ref_words))

\* word-level minimum edit distance (insertions, deletions, substitutions)
EditDistance(r, h) ==
    LET D[i \in 0..Len(r), j \in 0..Len(h)] ==
            IF i = 0 THEN j
            ELSE IF j = 0 THEN i
            ELSE Min(Min(D[i - 1, j] + 1, D[i, j - 1] + 1),
                     D[i - 1, j - 1] + (IF r[i] = h[j] THEN 0 ELSE 1))
    IN  D[Len(r), Len(h)]

\* jiwer.wer(reference, hypothesis): edit distance over the reference word
\* count; a reference without words is rejected with ValueError
JiwerWer(reference, hypothesis) ==
    LET ref_words == split(reference)
        hyp_words == split(hypothesis)
    IN  IF Len(ref_words) = 0
        THEN Raised("ValueError")
        ELSE Score(Rat(EditDistance(ref_words, hyp_words), Len(ref_words)))

\* calculate_wer; jiwer tells whether "from jiwer import wer" succeeds.
\* Only ImportError is caught, so an exception of jiwer.wer leaves the call.
calculate_wer(reference, hypothesis, jiwer) ==
    IF jiwer
    THEN JiwerWer(lower(reference), lower(hypothesis))
    ELSE Score(FallbackWer(reference, hypothesis))

\* ------------------------------------------------------------ sample source

\* the reference texts of the corpus entries
RefOdd == <<"a", " ", "A">>
RefEven == <<"A", " ", "a">>

\* a corpus of m entries; entry emptyAt (if any) has an empty reference text
CorpusOf(m, emptyAt) ==
    [i \in 1..m |->
        [audio |-> i,
         text |-> IF i = emptyAt THEN <<>>
                  ELSE IF i % 2 = 1 THEN RefOdd ELSE RefEven]]

\* where corpus access raises: -1 nowhere, 0 in load_dataset (or the import),
\* j >= 1 on reading the fields of entry j
FailPoints(m) == -1..m

\* number of entries the for loop of load_atc_samples appends
Taken(num_samples, dataset) ==
    IF num_samples <= 0 THEN 0 ELSE Min(num_samples, Len(dataset))

\* whether the try block of load_atc_samples raises
LoadRaises(num_samples, dataset, fail) ==
    fail = 0 \/ (fail >= 1 /\ fail <= Taken(num_samples, dataset))

\* faulty variant: the samples read before the exception are returned
LoadKeepsPartial(num_samples, dataset, fail) ==
    IF fail = 0 THEN <<>>
    ELSE LET k == IF fail >= 1 /\ fail <= Taken(num_samples, dataset)
                  THEN fail - 1 ELSE Taken(num_samples, dataset)
         IN  [j \in 1..k |->
                [audio |-> dataset[j].audio, text |-> dataset[j].text, id |-> j - 1]]

\* load_atc_samples(num_samples): the first entries in corpus order with ids
\* 0, 1, ...; [] when anything in the try block raises
load_atc_samples(num_samples, dataset, fail) ==
    IF LoadRaises(num_samples, dataset, fail)
    THEN <<>>
    ELSE [j \in 1..Taken(num_samples, dataset) |->
            [audio |-> dataset[j].audio, text |-> dataset[j].text, id |-> j - 1]]

\* ---------------------------------------------------------------- backends

\* what processor.batch_decode(...)[0] can be
RawOutputs == {<<" ", "a", " ", "A">>, <<"a", "a", " ", "A", "A">>}

\* what str(e) can be
Causes == {<<"x">>}

\* f"[Error: {e}]"
Sentinel(cause) == <<"[", "E", "r", "r", "o", "r", ":", " ">> \o cause \o <<"]">>

IsSentinel(text) == \E c \in Causes : text = Sentinel(c)

\* one invocation of a model: it decodes a text, or something in the try raises
BackendOutcomes ==
    {[raised |-> FALSE, text |-> raw] : raw \in RawOutputs}
        \cup {[raised |-> TRUE, text |-> c] : c \in Causes}

\* transcribe_with_generic_whisper / transcribe_with_atc_whisper: the same
\* body bound to two model names
transcribe(outcome) ==
    IF outcome.raised THEN Sentinel(outcome.text) ELSE strip(outcome.text)

transcribe_with_generic_whisper(outcome) == transcribe(outcome)

transcribe_with_atc_whisper(outcome) == transcribe(outcome)

\* ------------------------------------------------------------------- state

VARIABLES
    corpus,           \* the entries of the external dataset, in its order
    corpusFail,       \* where corpus access raises (FailPoints)
    jiwerInstalled,   \* whether "from jiwer import wer" succeeds
    pc,               \* position of run_comparison_test
    samples,          \* what load_atc_samples returned
    idx,              \* number of samples the for loop has finished
    generic_result,   \* last hypothesis of the generic backend
    atc_result,       \* last hypothesis of the ATC backend
    generic_wers,     \* the run's list of generic scores
    atc_wers,         \* the run's list of ATC scores
    calls,            \* per backend, the ids of the samples it was invoked on
    failedEvery,      \* per backend, whether every invocation so far raised
    avg_generic_wer,
    avg_atc_wer,
    improvement,      \* the improvement percentage of the summary
    recommendation,   \* which closing sentence was printed
    error,            \* the exception that ended the run, if any
    reference,        \* scorer harness: the reference text
    hypothesis,       \* scorer harness: the hypothesis text
    scored,           \* scorer harness: whether calculate_wer was applied
    wer_primary,      \* scorer harness: calculate_wer with jiwer installed
    wer_fallback      \* scorer harness: calculate_wer without jiwer

runVars ==
    <<corpus, corpusFail, jiwerInstalled, pc, samples, idx, generic_result,
      atc_result, generic_wers, atc_wers, calls, failedEvery, avg_generic_wer,
      avg_atc_wer, improvement, recommendation, error>>

scorerVars == <<reference, hypothesis, scored, wer_primary, wer_fallback>>

vars == <<runVars, scorerVars>>

\* a text variable that is not bound yet
NoText == <<"None">>

\* a number variable that is not bound yet
NoValue == <<0, 0>>

NoResult == Raised("None")

\* --------------------------------------------------------------- the run

RunIdle ==
    /\ corpus = <<>>
    /\ corpusFail = -1
    /\ jiwerInstalled = FALSE
    /\ pc = "Idle"
    /\ samples = <<>>
    /\ idx = 0
    /\ generic_result = NoText
    /\ atc_result = NoText
    /\ generic_wers = <<>>
    /\ atc_wers = <<>>
    /\ calls = [generic |-> <<>>, atc |-> <<>>]
    /\ failedEvery = [generic |-> TRUE, atc |-> TRUE]
    /\ avg_generic_wer = NoValue
    /\ avg_atc_wer = NoValue
    /\ improvement = NoValue
    /\ recommendation = "None"
    /\ error = "None"

ScorerIdle ==
    /\ reference = <<>>
    /\ hypothesis = <<>>
    /\ scored = FALSE
    /\ wer_primary = NoResult
    /\ wer_fallback = NoResult

\* the environment of one run: the corpus, whether its access fails, and
\* whether jiwer is installed
InitRun ==
    /\ \E m \in 0..MaxCorpus, emptyAt \in {0, 2} : corpus = CorpusOf(m, emptyAt)
    /\ corpusFail \in FailPoints(Len(corpus))
    /\ jiwerInstalled \in BOOLEAN
    /\ pc = "NotStarted"
    /\ samples = <<>>
    /\ idx = 0
    /\ generic_result = NoText
    /\ atc_result = NoText
    /\ generic_wers = <<>>
    /\ atc_wers = <<>>
    /\ calls = [generic |-> <<>>, atc |-> <<>>]
    /\ failedEvery = [generic |-> TRUE, atc |-> TRUE]
    /\ avg_generic_wer = NoValue
    /\ avg_atc_wer = NoValue
    /\ improvement = NoValue
    /\ recommendation = "None"
    /\ error = "None"

\* samples = load_atc_samples(num_samples=5); if not samples: return
Load ==
    /\ pc = "NotStarted"
    /\ samples' = load_atc_samples(NumSamples, corpus, corpusFail)
    /\ pc' = IF samples' = <<>> THEN "Completed" ELSE "RunningGeneric"
    /\ UNCHANGED <<corpus, corpusFail, jiwerInstalled, idx, generic_result,
                   atc_result, generic_wers, atc_wers, calls, failedEvery,
                   avg_generic_wer, avg_atc_wer, improvement, recommendation,
                   error>>
    /\ UNCHANGED scorerVars

\* the first half of the loop body: the generic backend, its score, append
TestGeneric ==
    /\ pc = "RunningGeneric"
    /\ \E outcome \in BackendOutcomes :
        LET sample == samples[idx + 1]
            result == transcribe_with_generic_whisper(outcome)
            generic_wer == calculate_wer(sample.text, result, jiwerInstalled)
        IN  /\ generic_result' = result
            /\ calls' = [calls EXCEPT !.generic = Append(@, sample.id)]
            /\ failedEvery' = [failedEvery EXCEPT !.generic = @ /\ outcome.raised]
            /\ IF generic_wer.ok
               THEN /\ generic_wers' = Append(generic_wers, generic_wer.val)
                    /\ pc' = "RunningAtc"
                    /\ error' = error
               ELSE /\ generic_wers' = generic_wers
                    /\ pc' = "Aborted"
                    /\ error' = generic_wer.exc
    /\ UNCHANGED <<corpus, corpusFail, jiwerInstalled, samples, idx, atc_result,
                   atc_wers, avg_generic_wer, avg_atc_wer, improvement,
                   recommendation>>
    /\ UNCHANGED scorerVars

\* faulty variant: the ATC score is appended to the generic list
TestAtcAppendsToGeneric ==
    /\ pc = "RunningAtc"
    /\ \E outcome \in BackendOutcomes :
        LET sample == samples[idx + 1]
            result == transcribe_with_atc_whisper(outcome)
            atc_wer == calculate_wer(sample.text, result, jiwerInstalled)
        IN  /\ atc_result' = result
            /\ calls' = [calls EXCEPT !.atc = Append(@, sample.id)]
            /\ failedEvery' = [failedEvery EXCEPT !.atc = @ /\ outcome.raised]
            /\ IF atc_wer.ok
               THEN /\ generic_wers' = Append(generic_wers, atc_wer.val)
                    /\ idx' = idx + 1
                    /\ pc' = IF idx + 1 < Len(samples)
                             THEN "RunningGeneric" ELSE "Summary"
                    /\ error' = error
               ELSE /\ generic_wers' = generic_wers
                    /\ idx' = idx
                    /\ pc' = "Aborted"
                    /\ error' = atc_wer.exc
    /\ UNCHANGED <<corpus, corpusFail, jiwerInstalled, samples, generic_result,
                   atc_wers, avg_generic_wer, avg_atc_wer, improvement,
                   recommendation>>
    /\ UNCHANGED scorerVars

\* the second half of the loop body: the ATC backend, its score, append;
\* then the next sample, or the summary after the last one
TestAtc ==
    /\ pc = "RunningAtc"
    /\ \E outcome \in BackendOutcomes :
        LET sample == samples[idx + 1]
            result == transcribe_with_atc_whisper(outcome)
            atc_wer == calculate_wer(sample.text, result, jiwerInstalled)
        IN  /\ atc_result' = result
            /\ calls' = [calls EXCEPT !.atc = Append(@, sample.id)]
            /\ failedEvery' = [failedEvery EXCEPT !.atc = @ /\ outcome.raised]
            /\ IF atc_wer.ok
               THEN /\ atc_wers' = Append(atc_wers, atc_wer.val)
                    /\ idx' = idx + 1
                    /\ pc' = IF idx + 1 < Len(samples)
                             THEN "RunningGeneric" ELSE "Summary"
                    /\ error' = error
               ELSE /\ atc_wers' = atc_wers
                    /\ idx' = idx
                    /\ pc' = "Aborted"
                    /\ error' = atc_wer.exc
    /\ UNCHANGED <<corpus, corpusFail, jiwerInstalled, samples, generic_result,
                   generic_wers, avg_generic_wer, avg_atc_wer, improvement,
                   recommendation>>
    /\ UNCHANGED scorerVars

\* sum(wers) / len(wers) if wers else 0
Average(wers) ==
    IF wers # <<>> THEN RatDiv(RatSum(wers), <<Len(wers), 1>>) ELSE RatZero

\* (avg_generic_wer - avg_atc_wer) / avg_generic_wer * 100, for a divisor # 0
Improvement(avg_generic, avg_atc) ==
    RatTimesInt(RatDiv(RatSub(avg_generic, avg_atc), avg_generic), 100)

\* the if of the closing sentence
Recommend(avg_atc) ==
    IF RatLess(avg_atc, <<ThresholdNum, ThresholdDen>>)
    THEN "RecommendSpecialized" ELSE "RecommendLargerSpecialized"

\* the summary: both averages, the improvement line, the recommendation.
\* The improvement line divides by avg_generic_wer unguarded.
Summary ==
    /\ pc = "Summary"
    /\ avg_generic_wer' = Average(generic_wers)
    /\ avg_atc_wer' = Average(atc_wers)
    /\ IF avg_generic_wer' = RatZero
       THEN /\ pc' = "Aborted"
            /\ error' = "ZeroDivisionError"
            /\ UNCHANGED <<improvement, recommendation>>
       ELSE /\ improvement' = Improvement(avg_generic_wer', avg_atc_wer')
            /\ recommendation' = Recommend(avg_atc_wer')
            /\ pc' = "Completed"
            /\ error' = error
    /\ UNCHANGED <<corpus, corpusFail, jiwerInstalled, samples, idx,
                   generic_result, atc_result, generic_wers, atc_wers, calls,
                   failedEvery>>
    /\ UNCHANGED scorerVars

NextRun == Load \/ TestGeneric \/ TestAtc \/ Summary

Init == InitRun /\ ScorerIdle

Spec == Init /\ [][NextRun]_vars

\* ------------------------------------------------------ the scorer harness

InitScorer ==
    /\ reference \in TextsUpTo(MaxRefLen)
    /\ hypothesis \in TextsUpTo(MaxHypLen)
    /\ scored = FALSE
    /\ wer_primary = NoResult
    /\ wer_fallback = NoResult

\* calculate_wer(reference, hypothesis) in both environments
ApplyScorer ==
    /\ ~scored
    /\ pc = "Idle"
    /\ scored' = TRUE
    /\ wer_primary' = calculate_wer(reference, hypothesis, TRUE)
    /\ wer_fallback' = calculate_wer(reference, hypothesis, FALSE)
    /\ UNCHANGED <<reference, hypothesis>>
    /\ UNCHANGED runVars

NextScorer == ApplyScorer

ScorerInit == InitScorer /\ RunIdle

ScorerSpec == ScorerInit /\ [][NextScorer]_vars

\* ------------------------------------------------------------------ claims

Terminal == pc \in {"Completed", "Aborted"}

\* the ids 0 .. k-1 in order
IdsUpTo(k) == [j \in 1..k |-> j - 1]

\* the first k corpus entries as samples
Prefix(k) ==
    [j \in 1..k |-> [audio |-> corpus[j].audio, text |-> corpus[j].text, id |-> j - 1]]

\* corpus access raises inside load_atc_samples(5): in load_dataset, or on an
\* entry among those the loop reads
AccessFails ==
    corpusFail = 0
        \/ (corpusFail >= 1 /\ corpusFail <= NumSamples /\ corpusFail <= Len(corpus))

\* C1: a run in which a backend raised on every sample still completes, with
\* one outcome per backend and sample, one invocation per backend and sample,
\* and the sentinel as the failing backend's hypothesis.
C1_FailingBackendStillCompletes ==
    \A b \in {"generic", "atc"} :
        (Terminal /\ samples # <<>> /\ failedEvery[b] /\ Len(calls[b]) = Len(samples))
            => /\ pc = "Completed"
               /\ Len(generic_wers) = Len(samples)
               /\ Len(atc_wers) = Len(samples)
               /\ calls.generic = IdsUpTo(Len(samples))
               /\ calls.atc = IdsUpTo(Len(samples))
               /\ IsSentinel(IF b = "generic" THEN generic_result ELSE atc_result)

\* C2: once the averages are computed the run completes with a
\* recommendation; the improvement figure is the quotient when the generic
\* average is positive and is omitted when it is 0.
C2_ImprovementGuarded ==
    (Terminal /\ avg_generic_wer # NoValue)
        => /\ pc = "Completed"
           /\ error = "None"
           /\ recommendation # "None"
           /\ improvement =
                IF RatLess(RatZero, avg_generic_wer)
                THEN Improvement(avg_generic_wer, avg_atc_wer)
                ELSE NoValue

\* C3: a corpus-access failure gives an empty sample sequence, and a started
\* run with no samples is Completed with no exception, no backend invocation,
\* no score and no report.
C3_EmptyLoadEndsRun ==
    pc # "NotStarted"
        => /\ (AccessFails \/ corpus = <<>>) => samples = <<>>
           /\ samples = <<>>
                => /\ pc = "Completed"
                   /\ error = "None"
                   /\ calls = [generic |-> <<>>, atc |-> <<>>]
                   /\ generic_result = NoText
                   /\ atc_result = NoText
                   /\ generic_wers = <<>>
                   /\ atc_wers = <<>>
                   /\ avg_generic_wer = NoValue
                   /\ avg_atc_wer = NoValue
                   /\ improvement = NoValue
                   /\ recommendation = "None"

\* C3 witness: a non-empty corpus whose access failed, and the run over
C3_Witness ==
    /\ pc = "Completed"
    /\ samples = <<>>
    /\ corpus # <<>>
    /\ corpusFail >= 1

\* C4: load takes the first min(n, m) entries in corpus order with ids
\* 0 .. min(n, m) - 1, and a run over an accessible corpus ends with exactly
\* min(5, m) outcomes per backend.
C4_RunYieldsMinOutcomes ==
    /\ \A n \in 0..MaxRequest :
          load_atc_samples(n, corpus, -1) = Prefix(Min(n, Len(corpus)))
    /\ (Terminal /\ ~AccessFails)
          => /\ Len(generic_wers) = Min(NumSamples, Len(corpus))
             /\ Len(atc_wers) = Min(NumSamples, Len(corpus))

\* C5: every run that scored all its samples ends with exactly the
\* recommendation the ATC average decides: RecommendSpecialized when it is
\* below 15/100, RecommendLargerSpecialized otherwise, whatever the generic
\* average.
C5_RecommendationByAtcAverage ==
    (Terminal /\ samples # <<>> /\ Len(atc_wers) = Len(samples))
        => LET avg == Average(atc_wers)
           IN  recommendation =
                 IF avg[1] * ThresholdDen < ThresholdNum * avg[2]
                 THEN "RecommendSpecialized"
                 ELSE "RecommendLargerSpecialized"

\* C6: for a reference without words calculate_wer gives a score on both
\* paths, the same on both: 0 for a hypothesis without words, 1 otherwise.
C6_EmptyReferenceDefined ==
    (scored /\ split(lower(reference)) = <<>>)
        => LET expected == IF split(lower(hypothesis)) = <<>> THEN <<0, 1>> ELSE <<1, 1>>
           IN  /\ wer_fallback.ok
               /\ wer_fallback.val = expected
               /\ wer_primary.ok
               /\ wer_primary.val = expected

\* C7: the fallback score is a number in [0, 1]; for a reference with words
\* it is min(1, (|len(ref) - len(hyp)| + mismatches on the overlap) / len(ref)),
\* and it is 0 exactly when the lower-cased word sequences are identical.
C7_FallbackBounded ==
    scored
        => LET r == split(lower(reference))
               h == split(lower(hypothesis))
               overlap == IF Len(r) <= Len(h) THEN Len(r) ELSE Len(h)
               errs == (IF Len(r) >= Len(h) THEN Len(r) - Len(h) ELSE Len(h) - Len(r))
                         + Cardinality({i \in 1..overlap : r[i] # h[i]})
               v == wer_fallback.val
           IN  /\ wer_fallback.ok
               /\ v[2] > 0
               /\ 0 <= v[1]
               /\ v[1] <= v[2]
               /\ r # <<>> =>
                    IF errs >= Len(r)
                    THEN v = <<1, 1>>
                    ELSE v[1] * Len(r) = errs * v[2]
               /\ (v[1] = 0) <=> (r = h)

\* C7 witness: a reference with words and more errors than reference words,
\* scored 1
C7_Witness ==
    /\ scored
    /\ split(lower(reference)) # <<>>
    /\ FallbackErrors(split(lower(reference)), split(lower(hypothesis)))
          > Len(split(lower(reference)))
    /\ wer_fallback.val = <<1, 1>>

\* C8: the two score lists stay aligned with the samples: the generic list is
\* as long as the ATC list or one longer, the ATC list has one entry per
\* finished sample, each backend was invoked on the samples in load order,
\* a run past its loop has one entry per sample in both lists, and every
\* append puts the score of the current sample's reference against the
\* hypothesis just returned at that sample's index, generic before ATC.
C8_ListsAligned ==
    /\ Len(atc_wers) = idx
    /\ Len(generic_wers) \in {idx, idx + 1}
    /\ pc = "RunningGeneric" => Len(generic_wers) = idx
    /\ pc = "RunningAtc" => Len(generic_wers) = idx + 1
    /\ idx <= Len(samples)
    /\ \A j \in 1..Len(samples) : samples[j].id = j - 1
    /\ calls.generic = IdsUpTo(Len(calls.generic))
    /\ calls.atc = IdsUpTo(Len(calls.atc))
    /\ Len(calls.atc) <= Len(calls.generic)
    /\ Len(calls.generic) <= Len(calls.atc) + 1
    /\ pc \in {"Summary", "Completed"}
          => (Len(generic_wers) = Len(samples) /\ Len(atc_wers) = Len(samples))

C8_AppendsInOrder ==
    /\ generic_wers' # generic_wers
          => /\ Len(generic_wers) = Len(atc_wers)
             /\ atc_wers' = atc_wers
             /\ calculate_wer(samples[idx + 1].text, generic_result', jiwerInstalled).ok
             /\ generic_wers' =
                  Append(generic_wers,
                         calculate_wer(samples[idx + 1].text, generic_result',
                                       jiwerInstalled).val)
    /\ atc_wers' # atc_wers
          => /\ Len(generic_wers) = Len(atc_wers) + 1
             /\ generic_wers' = generic_wers
             /\ calculate_wer(samples[idx + 1].text, atc_result', jiwerInstalled).ok
             /\ atc_wers' =
                  Append(atc_wers,
                         calculate_wer(samples[idx + 1].text, atc_result',
                                       jiwerInstalled).val)

C8_IndexAligned == []C8_ListsAligned /\ [][C8_AppendsInOrder]_vars

\* C8 witness: a run past its loop over five samples whose two backends scored
\* differently on some sample
C8_Witness ==
    /\ pc = "Completed"
    /\ Len(samples) = NumSamples
    /\ Len(generic_wers) = NumSamples
    /\ Len(atc_wers) = NumSamples
    /\ \E j \in 1..NumSamples : generic_wers[j] # atc_wers[j]

\* C9: a run is only ever NotStarted, Running or Completed: it never ends
\* with an exception, and a Completed run over samples went through every
\* sample index and has its report.
C9_RunReachesCompleted ==
    /\ pc # "Aborted"
    /\ error = "None"
    /\ (pc = "Completed" /\ samples # <<>>)
          => (idx = Len(samples) /\ recommendation # "None")

\* C10: for a reference with words the fallback never reports less than the
\* primary scorer: its error count is at least the edit distance and its
\* score at least min(1, primary score); the scores are equal when the word
\* sequences have equal length and differ in at most two positions.
C10_FallbackNotBelowPrimary ==
    (scored /\ split(lower(reference)) # <<>>)
        => LET r == split(lower(reference))
               h == split(lower(hypothesis))
               p == wer_primary.val
               f == wer_fallback.val
           IN  /\ wer_primary.ok
               /\ wer_fallback.ok
               /\ FallbackErrors(r, h) >= EditDistance(r, h)
               /\ p[1] * Len(r) = EditDistance(r, h) * p[2]
               /\ RatLeq(IF RatLess(<<1, 1>>, p) THEN <<1, 1>> ELSE p, f)
               /\ (Len(r) = Len(h) /\ Cardinality({i \in 1..Len(r) : r[i] # h[i]}) <= 2)
                     => f = p

\* C10 witness: a shifted hypothesis, scored higher by the fallback than by
\* the primary scorer
C10_Witness ==
    /\ scored
    /\ wer_primary.ok
    /\ RatLess(wer_primary.val, wer_fallback.val)
    /\ Len(split(lower(reference))) = Len(split(lower(hypothesis))) + 1

====
